---- MODULE Spec2Model ----
(***************************************************************************)
(* A model of the two admin scripts of ayende-crm-force:                   *)
(*   src/staticfiles/admin/js/custom-admin.js  (initAutoSave, the          *)
(*       DOMContentLoaded handler that wires the page's features)          *)
(*   src/unnamed/part_000                      (currency symbol            *)
(*       auto-population)                                                  *)
(*                                                                         *)
(* Three specifications:                                                   *)
(*   Spec         initAutoSave() invoked once per document, then the       *)
(*                change / submit listeners it attached;                   *)
(*   SpecPage     the page as custom-admin.js wires it: its                *)
(*                DOMContentLoaded handler (lines 8-18);                   *)
(*   SpecCurrency the currency script.                                     *)
(***************************************************************************)
EXTENDS Naturals, Sequences, FiniteSets, TLC

VARIABLES
    page,            \* the markup the server renders: a sequence of forms
    storage,         \* how window.localStorage behaves for this origin
    store,           \* localStorage: key -> item
    phase,           \* "parsed": document parsed, load handlers not yet run; "ready"
    value,           \* value[f][i]: the .value of element i of form f
    background,      \* background[f][i]: style.background of that element
    changeListener,  \* set of <<f, i>>: elements carrying the 'change' listener
    submitListener,  \* set of f: forms carrying the 'submit' listener
    lastEvent,       \* the event delivered last (history)
    threw,           \* the handler of the last event let an exception escape
    formState,       \* history, per form: "changed" / "submitted", the listener of the
                     \* form that ran last; before any ran, "preexisting" when the
                     \* store held an item under the form's key at the start, else "empty"
    keyState,        \* history, per storage key: the same, over all forms of the key
    currencyField,        \* #id_currency
    currencySymbolField,  \* #id_currency_symbol
    currencyListener,     \* updateCurrencySymbol listens for 'change' on #id_currency
    timers,               \* pending setTimeout callbacks of the currency script
    curPhase,             \* the currency script's document phase
    curEvent,             \* the currency script's last event (history)
    prevSymbol            \* the symbol field's value before the last event (history)

asVars == <<page, storage, store, phase, value, background, changeListener,
            submitListener, lastEvent, threw, formState, keyState>>
curVars == <<currencyField, currencySymbolField, currencyListener, timers, curPhase, curEvent, prevSymbol>>
vars == <<asVars, curVars>>

---------------------------------------------------------------------------
(* Bounds *)

\* the number of distinct non-empty strings a field may hold
NumValues == 2
\* the number of setTimeout callbacks that may be pending at once
MaxTimers == 2

ValuePool == <<"Alice", "Bob", "Carol", "Dave">>
Values == {""} \cup {ValuePool[i] : i \in 1..NumValues}

---------------------------------------------------------------------------
(* The document: forms and their elements.  id = "" stands for a form       *)
(* whose id attribute is absent or empty (getAttribute gives null or "",    *)
(* both falsy); name = "" for an element without a name.                    *)

Elem(tag, name) == [tag |-> tag, name |-> name]
Form(id, elems) == [id |-> id, elems |-> elems]

\* form.querySelectorAll('input, textarea, select')
IsInput(el) == el.tag \in {"input", "textarea", "select"}

PageProfile ==
    << Form("profile-form", << Elem("input", "name"), Elem("textarea", "bio") >>) >>
PageTwoIds ==
    << Form("profile-form", << Elem("input", "name") >>),
       Form("settings-form", << Elem("input", "name") >>) >>
PageNoIds ==
    << Form("", << Elem("input", "name") >>),
       Form("", << Elem("input", "name") >>) >>
PageFallbackId ==
    << Form("admin-form", << Elem("input", "name") >>),
       Form("", << Elem("select", "name") >>) >>
PageSharedName ==
    << Form("profile-form",
            << Elem("input", "name"), Elem("input", "name"), Elem("input", "") >>) >>
PageButton ==
    << Form("profile-form", << Elem("button", "name"), Elem("input", "name") >>) >>
PageSameId ==
    << Form("profile-form", << Elem("input", "name") >>),
       Form("profile-form", << Elem("input", "bio") >>) >>

Pages == {PageProfile, PageTwoIds, PageNoIds, PageFallbackId, PageSharedName,
          PageButton, PageSameId}

Forms == DOMAIN page
Elems(f) == DOMAIN page[f].elems
Inputs(f) == {i \in Elems(f) : IsInput(page[f].elems[i])}

\* const formId = form.getAttribute('id') || 'admin-form';
FormId(form) == IF form.id # "" THEN form.id ELSE "admin-form"
\* one key for every form, whatever its id
KeyFallback(form) == "autosave-admin-form"

\* `autosave-${formId}`
Key(form) == "autosave-" \o FormId(form)
KeysOf(p) == {Key(p[f]) : f \in DOMAIN p}

---------------------------------------------------------------------------
(* JSON.  A JS object is the sequence of its own properties in insertion     *)
(* order; a text is a sequence of tokens, string literals being one token.   *)

Punct == {"{", "}", ":", ","}

HasKey(obj, k) == \E j \in DOMAIN obj : obj[j].k = k
\* data[name]
Get(obj, k) == obj[CHOOSE j \in DOMAIN obj : obj[j].k = k].v
\* formData[name] = v
Put(obj, k, v) ==
    IF HasKey(obj, k)
    THEN [j \in DOMAIN obj |-> IF obj[j].k = k THEN [k |-> k, v |-> v] ELSE obj[j]]
    ELSE Append(obj, [k |-> k, v |-> v])
\* Object.keys(data)
ObjectKeys(obj) == [j \in DOMAIN obj |-> obj[j].k]

RECURSIVE Members(_)
Members(obj) ==
    IF obj = << >> THEN << >>
    ELSE << obj[1].k, ":", obj[1].v >>
         \o (IF Len(obj) = 1 THEN << >> ELSE << "," >> \o Members(Tail(obj)))
JSONstringify(obj) == << "{" >> \o Members(obj) \o << "}" >>

ParseError == [ok |-> FALSE, obj |-> << >>]
RECURSIVE ParseMembers(_, _)
ParseMembers(toks, obj) ==
    IF Len(toks) < 3 \/ toks[1] \in Punct \/ toks[2] # ":" \/ toks[3] \in Punct
    THEN ParseError
    ELSE LET o == Put(obj, toks[1], toks[3]) IN
         IF Len(toks) = 3 THEN [ok |-> TRUE, obj |-> o]
         ELSE IF toks[4] # "," THEN ParseError
         ELSE ParseMembers(SubSeq(toks, 5, Len(toks)), o)
\* JSON.parse(text): ok = FALSE when it throws SyntaxError
JSONparse(text) ==
    IF Len(text) < 2 \/ text[1] # "{" \/ text[Len(text)] # "}" THEN ParseError
    ELSE IF Len(text) = 2 THEN [ok |-> TRUE, obj |-> << >>]
    ELSE ParseMembers(SubSeq(text, 2, Len(text) - 1), << >>)

---------------------------------------------------------------------------
(* localStorage *)

NoItem == [present |-> FALSE, text |-> << >>]      \* getItem gives null
Item(text) == [present |-> TRUE, text |-> text]

StorageModes == {"ok", "quota", "unavailable"}
\* localStorage.getItem / removeItem throw when the store is unavailable
ReadThrows == storage = "unavailable"
\* localStorage.setItem also throws when the quota is exceeded
WriteThrows == storage \in {"quota", "unavailable"}

\* what a previous document, or anything else of the origin, may have left
InitialItems ==
    { NoItem,
      Item(<< >>),
      Item(<< "{", "name" >>),
      Item(JSONstringify(<< [k |-> "name", v |-> "Bob"] >>)),
      Item(JSONstringify(<< [k |-> "name", v |-> "Alice"], [k |-> "bio", v |-> "Bob"] >>)),
      Item(JSONstringify(<< [k |-> "ghost", v |-> "Bob"] >>)) }

---------------------------------------------------------------------------
(* initAutoSave: the restore at page load (lines 305-320) *)

\* const savedData = localStorage.getItem(`autosave-${formId}`);
SavedData(f) == store[Key(page[f])]
\* if (savedData): null and the empty string are falsy
Truthy(item) == item.present /\ item.text # << >>

\* form.querySelector(`[name="${name}"]`): the first element of the form, of
\* any tag, bearing that name; 0 for null
QuerySelector(f, name) ==
    IF \E i \in Elems(f) : page[f].elems[i].name = name /\ name # ""
    THEN CHOOSE i \in Elems(f) :
            /\ page[f].elems[i].name = name
            /\ \A j \in Elems(f) : page[f].elems[j].name = name => i <= j
    ELSE 0

\* a restore that does not look at the field's value
ShouldRestoreAlways(f, i, vals) == i # 0

\* if (input && !input.value)
ShouldRestore(f, i, vals) == i # 0 /\ vals[f][i] = ""

\* Object.keys(data).forEach(name => { ... }) from the n-th key on
RECURSIVE RestoreKeys(_, _, _, _)
RestoreKeys(f, data, n, st) ==
    IF n > Len(data) THEN st
    ELSE LET name == ObjectKeys(data)[n]
             i == QuerySelector(f, name)
             next == IF ShouldRestore(f, i, st.value)
                     THEN [st EXCEPT !.value[f][i] = Get(data, name),
                                     !.background[f][i] = "#fef3c7"]
                     ELSE st
         IN RestoreKeys(f, data, n + 1, next)

\* the statements of one forEach iteration that can throw: getItem on an
\* unavailable store, JSON.parse on a text that is no JSON
FormThrows(f) ==
    \/ ReadThrows
    \/ Truthy(SavedData(f)) /\ ~JSONparse(SavedData(f).text).ok

\* one iteration of forms.forEach(form => { ... }) that does not throw
InitForm(f, st) ==
    LET restored == IF Truthy(SavedData(f))
                    THEN RestoreKeys(f, JSONparse(SavedData(f).text).obj, 1, st)
                    ELSE st
    IN [restored EXCEPT
          !.changeListener = @ \cup {<<f, i>> : i \in Inputs(f)},
          !.submitListener = @ \cup {f}]

\* forms.forEach from form f on; an exception ends the whole call
RECURSIVE InitForms(_, _)
InitForms(f, st) ==
    IF f > Len(page) THEN st
    ELSE IF FormThrows(f) THEN [st EXCEPT !.threw = TRUE]
    ELSE InitForms(f + 1, InitForm(f, st))

DocState == [value |-> value, background |-> background,
             changeListener |-> changeListener, submitListener |-> submitListener,
             threw |-> FALSE]

Event(type, f, i) == [type |-> type, form |-> f, field |-> i]

\* initAutoSave() run on the parsed document
InitAutoSave ==
    /\ phase = "parsed"
    /\ LET st == InitForms(1, DocState) IN
         /\ value' = st.value
         /\ background' = st.background
         /\ changeListener' = st.changeListener
         /\ submitListener' = st.submitListener
         /\ threw' = st.threw
    /\ phase' = "ready"
    /\ lastEvent' = Event("load", 0, 0)
    /\ UNCHANGED <<page, storage, store, formState, keyState>>
    /\ UNCHANGED curVars

---------------------------------------------------------------------------
(* The DOMContentLoaded handler of custom-admin.js (lines 8-18): it calls    *)
(* initDashboardStats, initTableEnhancements, initFormEnhancements,          *)
(* initSearchEnhancements, initAnimations and initTooltips.  None of them    *)
(* reads or writes localStorage, assigns a field's value or background, or   *)
(* adds a 'change' or 'submit' listener; initAutoSave is not among them.     *)

DOMContentLoaded ==
    /\ phase = "parsed"
    /\ phase' = "ready"
    /\ lastEvent' = Event("load", 0, 0)
    /\ threw' = FALSE
    /\ UNCHANGED <<page, storage, store, value, background, changeListener,
                   submitListener, formState, keyState>>
    /\ UNCHANGED curVars

---------------------------------------------------------------------------
(* The listeners initAutoSave attaches (lines 322-338) *)

\* a snapshot that does not skip the unnamed fields
RECURSIVE FormDataUnnamed(_, _, _)
FormDataUnnamed(f, vals, n) ==
    IF n = 0 THEN << >>
    ELSE LET el == page[f].elems[n]
             sofar == FormDataUnnamed(f, vals, n - 1)
         IN IF IsInput(el) THEN Put(sofar, el.name, vals[f][n]) ELSE sofar

\* inputs.forEach(inp => { if (inp.name) formData[inp.name] = inp.value; })
\* over the first n elements of the form
RECURSIVE FormData(_, _, _)
FormData(f, vals, n) ==
    IF n = 0 THEN << >>
    ELSE LET el == page[f].elems[n]
             sofar == FormData(f, vals, n - 1)
         IN IF IsInput(el) /\ el.name # "" THEN Put(sofar, el.name, vals[f][n])
            ELSE sofar
Snapshot(f, vals) == FormData(f, vals, Len(page[f].elems))

\* a change listener that writes nothing
SetNothing(f, vals) == store

\* localStorage.setItem(`autosave-${formId}`, JSON.stringify(formData))
SetItem(f, vals) == [store EXCEPT ![Key(page[f])] = Item(JSONstringify(Snapshot(f, vals)))]
\* a submit listener that leaves the item in place
RemoveNothing(f) == store

\* localStorage.removeItem(`autosave-${formId}`)
RemoveItem(f) == [store EXCEPT ![Key(page[f])] = NoItem]

\* the user commits a new value to a field: the browser assigns it and
\* dispatches 'change' on the element
ChangeEvent(f, i, v) ==
    /\ i \in Inputs(f)
    /\ value' = [value EXCEPT ![f][i] = v]
    /\ lastEvent' = Event("change", f, i)
    /\ IF <<f, i>> \in changeListener
       THEN /\ IF WriteThrows
               THEN threw' = TRUE /\ store' = store
               ELSE threw' = FALSE /\ store' = SetItem(f, value')
            /\ formState' = [formState EXCEPT ![f] = "changed"]
            /\ keyState' = [keyState EXCEPT ![Key(page[f])] = "changed"]
       ELSE /\ threw' = FALSE
            /\ UNCHANGED <<store, formState, keyState>>
    /\ UNCHANGED <<page, storage, phase, background, changeListener, submitListener>>
    /\ UNCHANGED curVars

\* a field's value changes with no 'change' dispatched: typing not yet
\* committed, or a script assigning .value
UserInput(f, i, v) ==
    /\ i \in Elems(f)
    /\ value[f][i] # v
    /\ value' = [value EXCEPT ![f][i] = v]
    /\ lastEvent' = Event("input", f, i)
    /\ threw' = FALSE
    /\ UNCHANGED <<page, storage, store, phase, background, changeListener,
                   submitListener, formState, keyState>>
    /\ UNCHANGED curVars

\* 'submit' dispatched on a form
SubmitEvent(f) ==
    /\ lastEvent' = Event("submit", f, 0)
    /\ IF f \in submitListener
       THEN /\ IF ReadThrows
               THEN threw' = TRUE /\ store' = store
               ELSE threw' = FALSE /\ store' = RemoveItem(f)
            /\ formState' = [formState EXCEPT ![f] = "submitted"]
            /\ keyState' = [keyState EXCEPT ![Key(page[f])] = "submitted"]
       ELSE /\ threw' = FALSE
            /\ UNCHANGED <<store, formState, keyState>>
    /\ UNCHANGED <<page, storage, phase, value, background, changeListener, submitListener>>
    /\ UNCHANGED curVars

\* the values a freshly rendered document may carry
ValueStates(p) ==
    {v \in [DOMAIN p -> UNION {[DOMAIN p[f].elems -> Values] : f \in DOMAIN p}] :
        \A f \in DOMAIN p : DOMAIN v[f] = DOMAIN p[f].elems}
NoBackground(p) == [f \in DOMAIN p |-> [i \in DOMAIN p[f].elems |-> ""]]

\* the page is loaded again: a new document, the same store
Navigate ==
    /\ phase = "ready"
    /\ phase' = "parsed"
    /\ value' \in ValueStates(page)
    /\ background' = NoBackground(page)
    /\ changeListener' = {}
    /\ submitListener' = {}
    /\ lastEvent' = Event("navigate", 0, 0)
    /\ threw' = FALSE
    /\ UNCHANGED <<page, storage, store, formState, keyState>>
    /\ UNCHANGED curVars

---------------------------------------------------------------------------
(* Specifications of the draft persistence *)

NoCurrency ==
    /\ currencyField = [present |-> FALSE, value |-> ""]
    /\ currencySymbolField = [present |-> FALSE, value |-> << >>, backgroundColor |-> ""]
    /\ currencyListener = FALSE
    /\ timers = 0
    /\ curPhase = "parsed"
    /\ curEvent = "none"
    /\ prevSymbol = << >>

InitialState(item) == IF item.present THEN "preexisting" ELSE "empty"

Init ==
    /\ page \in Pages
    /\ storage \in StorageModes
    /\ store \in [KeysOf(page) -> InitialItems]
    /\ storage = "unavailable" => \A k \in KeysOf(page) : store[k] = NoItem
    /\ phase = "parsed"
    /\ value \in ValueStates(page)
    /\ background = NoBackground(page)
    /\ changeListener = {}
    /\ submitListener = {}
    /\ lastEvent = Event("none", 0, 0)
    /\ threw = FALSE
    /\ formState = [f \in DOMAIN page |-> InitialState(store[Key(page[f])])]
    /\ keyState = [k \in KeysOf(page) |-> InitialState(store[k])]
    /\ NoCurrency

UserEvents ==
    \/ \E f \in Forms : \E i \in Elems(f) : \E v \in Values : ChangeEvent(f, i, v)
    \/ \E f \in Forms : \E i \in Elems(f) : \E v \in Values : UserInput(f, i, v)
    \/ \E f \in Forms : SubmitEvent(f)
    \/ Navigate

Next == InitAutoSave \/ UserEvents
Spec == Init /\ [][Next]_vars

NextPage == DOMContentLoaded \/ UserEvents
SpecPage == Init /\ [][NextPage]_vars

---------------------------------------------------------------------------
(* The currency script (src/unnamed/part_000).  A symbol is the sequence of *)
(* its characters; a character outside ASCII is written by its code point.  *)

CURRENCY_SYMBOLS ==
    [c \in {"USD", "CAD", "GBP", "EUR", "AUD", "NGN", "ZAR", "KES", "GHS", "UGX",
            "TZS", "EGP", "MAD", "JPY", "CNY", "INR", "CHF"} |->
        CASE c = "USD" -> << "$" >>
          [] c = "CAD" -> << "C", "$" >>
          [] c = "GBP" -> << "U+00A3" >>
          [] c = "EUR" -> << "U+20AC" >>
          [] c = "AUD" -> << "A", "$" >>
          [] c = "NGN" -> << "U+20A6" >>
          [] c = "ZAR" -> << "R" >>
          [] c = "KES" -> << "K", "S", "h" >>
          [] c = "GHS" -> << "G", "H", "U+20B5" >>
          [] c = "UGX" -> << "U", "S", "h" >>
          [] c = "TZS" -> << "T", "S", "h" >>
          [] c = "EGP" -> << "E", "U+00A3" >>
          [] c = "MAD" -> << "D", "H" >>
          [] c = "JPY" -> << "U+00A5" >>
          [] c = "CNY" -> << "U+00A5" >>
          [] c = "INR" -> << "U+20B9" >>
          [] c = "CHF" -> << "C", "H", "F" >>]

\* the values #id_currency may take: the mapped codes, none, an unmapped one
CurrencyCodes == DOMAIN CURRENCY_SYMBOLS \cup {"", "XOF"}

\* what the server renders, or the user types, into #id_currency_symbol
SymbolInputs ==
    { << >>, << " " >>, << "$" >>, << " ", "$", " " >>, << "U+20A6" >>,
      << "U+20A6", " " >>, << "R" >>, << "U+20AC" >>, << "$", "$" >> }

WhiteSpace == {" "}
\* String.prototype.trim
RECURSIVE trim(_)
trim(s) ==
    IF s = << >> THEN s
    ELSE IF s[1] \in WhiteSpace THEN trim(Tail(s))
    ELSE IF s[Len(s)] \in WhiteSpace THEN trim(SubSeq(s, 1, Len(s) - 1))
    ELSE s

\* selectedCurrency && CURRENCY_SYMBOLS[selectedCurrency]
HasSymbol(selectedCurrency) ==
    selectedCurrency # "" /\ selectedCurrency \in DOMAIN CURRENCY_SYMBOLS

\* a test that takes every symbol for a default
IsDefaultSymbolAny(currentSymbol) == TRUE

\* !currentSymbol || currentSymbol === '$' || currentSymbol === (naira sign)
IsDefaultSymbol(currentSymbol) ==
    currentSymbol = << >> \/ currentSymbol = << "$" >> \/ currentSymbol = << "U+20A6" >>

\* updateCurrencySymbol() writes the symbol and schedules the timer
Updates(selectedCurrency, symbol) ==
    HasSymbol(selectedCurrency) /\ IsDefaultSymbol(trim(symbol))

\* updateCurrencySymbol(): the symbol field after the call
updateCurrencySymbol(selectedCurrency, field) ==
    IF Updates(selectedCurrency, field.value)
    THEN [field EXCEPT !.value = CURRENCY_SYMBOLS[selectedCurrency],
                       !.backgroundColor = "#d1fae5"]
    ELSE field

\* the page-load trigger: if (currencyField.value) { if (!currentSymbol || currentSymbol === '$') }
LoadTriggers(selectedCurrency, symbol) ==
    selectedCurrency # "" /\ (trim(symbol) = << >> \/ trim(symbol) = << "$" >>)

\* the DOMContentLoaded handler of the currency script.  The help text it
\* appends to the field's wrapper is no part of the state modelled.
CurrencyLoaded ==
    /\ curPhase = "parsed"
    /\ curPhase' = "ready"
    /\ curEvent' = "load"
    /\ prevSymbol' = currencySymbolField.value
    /\ IF ~currencyField.present \/ ~currencySymbolField.present
       THEN UNCHANGED <<currencySymbolField, currencyListener, timers>>
       ELSE /\ currencyListener' = TRUE
            /\ IF LoadTriggers(currencyField.value, currencySymbolField.value)
               THEN /\ currencySymbolField' =
                          updateCurrencySymbol(currencyField.value, currencySymbolField)
                    /\ timers' = IF Updates(currencyField.value, currencySymbolField.value)
                                 THEN timers + 1 ELSE timers
               ELSE UNCHANGED <<currencySymbolField, timers>>
    /\ UNCHANGED currencyField
    /\ UNCHANGED asVars

\* the user selects a currency: 'change' on #id_currency
CurrencyChange(c) ==
    /\ currencyField.present
    /\ timers < MaxTimers
    /\ currencyField' = [currencyField EXCEPT !.value = c]
    /\ curEvent' = "change"
    /\ prevSymbol' = currencySymbolField.value
    /\ IF currencyListener
       THEN /\ currencySymbolField' = updateCurrencySymbol(c, currencySymbolField)
            /\ timers' = IF Updates(c, currencySymbolField.value)
                         THEN timers + 1 ELSE timers
       ELSE UNCHANGED <<currencySymbolField, timers>>
    /\ UNCHANGED <<currencyListener, curPhase>>
    /\ UNCHANGED asVars

\* setTimeout(function() { currencySymbolField.style.backgroundColor = ''; }, 1000)
TimerFires ==
    /\ timers > 0
    /\ timers' = timers - 1
    /\ currencySymbolField' = [currencySymbolField EXCEPT !.backgroundColor = ""]
    /\ curEvent' = "timer"
    /\ prevSymbol' = currencySymbolField.value
    /\ UNCHANGED <<currencyField, currencyListener, curPhase>>
    /\ UNCHANGED asVars

\* the user types a symbol of their own
EditSymbol(s) ==
    /\ currencySymbolField.present
    /\ currencySymbolField.value # s
    /\ currencySymbolField' = [currencySymbolField EXCEPT !.value = s]
    /\ curEvent' = "edit"
    /\ prevSymbol' = currencySymbolField.value
    /\ UNCHANGED <<currencyField, currencyListener, timers, curPhase>>
    /\ UNCHANGED asVars

\* the page is loaded again: the timers and listeners of the old document go
CurrencyNavigate ==
    /\ curPhase = "ready"
    /\ curPhase' = "parsed"
    /\ currencyField' \in {[currencyField EXCEPT !.value = c] : c \in CurrencyCodes}
    /\ currencySymbolField' \in
          {[currencySymbolField EXCEPT !.value = s, !.backgroundColor = ""] :
              s \in SymbolInputs}
    /\ currencyListener' = FALSE
    /\ timers' = 0
    /\ curEvent' = "navigate"
    /\ prevSymbol' = currencySymbolField.value
    /\ UNCHANGED asVars

NoForms ==
    /\ page = PageProfile
    /\ storage = "ok"
    /\ store = [k \in KeysOf(page) |-> NoItem]
    /\ phase = "parsed"
    /\ value = NoBackground(page)
    /\ background = NoBackground(page)
    /\ changeListener = {}
    /\ submitListener = {}
    /\ lastEvent = Event("none", 0, 0)
    /\ threw = FALSE
    /\ formState = [f \in DOMAIN page |-> "empty"]
    /\ keyState = [k \in KeysOf(page) |-> "empty"]

InitCurrency ==
    /\ NoForms
    /\ currencyField \in {[present |-> b, value |-> IF b THEN c ELSE ""] :
                             b \in BOOLEAN, c \in CurrencyCodes}
    /\ currencySymbolField \in
          {[present |-> b, value |-> IF b THEN s ELSE << >>, backgroundColor |-> ""] :
              b \in BOOLEAN, s \in SymbolInputs}
    /\ currencyListener = FALSE
    /\ timers = 0
    /\ curPhase = "parsed"
    /\ curEvent = "none"
    /\ prevSymbol = currencySymbolField.value

NextCurrency ==
    \/ CurrencyLoaded
    \/ \E c \in CurrencyCodes : CurrencyChange(c)
    \/ TimerFires
    \/ \E s \in SymbolInputs : EditSymbol(s)
    \/ CurrencyNavigate
SpecCurrency == InitCurrency /\ [][NextCurrency]_vars

---------------------------------------------------------------------------
(* Properties of the draft persistence *)

\* the form's listeners are attached: initAutoSave got through the form
Tracked(f) ==
    /\ f \in submitListener
    /\ \A i \in Inputs(f) : <<f, i>> \in changeListener

\* the item under the form's key is a well-formed record
HasRecord(f) == Truthy(SavedData(f)) /\ JSONparse(SavedData(f).text).ok
Record(f) == JSONparse(SavedData(f).text).obj
NamedInputs(f) == {i \in Inputs(f) : page[f].elems[i].name # ""}
NamesOf(f) == {page[f].elems[i].name : i \in NamedInputs(f)}
LastNamed(f, name) ==
    CHOOSE i \in NamedInputs(f) :
        /\ page[f].elems[i].name = name
        /\ \A j \in NamedInputs(f) : page[f].elems[j].name = name => j <= i
LoadStep == phase = "parsed" /\ phase' = "ready"

\* C1  Restore-only-if-empty: when initAutoSave applies the stored record, a
\* field whose value is non-empty keeps it, and a field that is assigned (its
\* background is set) was empty and receives the value stored under its name.
RestoreOnlyIfEmpty ==
    [][LoadStep =>
         \A f \in Forms : \A i \in Elems(f) :
            /\ value[f][i] # "" => value'[f][i] = value[f][i]
            /\ (value'[f][i] # value[f][i] \/ background'[f][i] # background[f][i]) =>
                  /\ value[f][i] = ""
                  /\ HasRecord(f)
                  /\ HasKey(Record(f), page[f].elems[i].name)
                  /\ value'[f][i] = Get(Record(f), page[f].elems[i].name)]_vars

\* C1 witness: after a restore, one field was filled from the record while
\* another, non-empty, kept a value that differs from the one stored for it.
RestoreOnlyIfEmptyWitness ==
    /\ lastEvent.type = "load"
    /\ \E f \in Forms : \E i, j \in Elems(f) :
          /\ HasRecord(f)
          /\ background[f][j] = "#fef3c7" /\ value[f][j] # ""
          /\ background[f][i] = "" /\ value[f][i] # ""
          /\ HasKey(Record(f), page[f].elems[i].name)
          /\ Get(Record(f), page[f].elems[i].name) # value[f][i]

\* the change listener of the last event ran and its write went through
ChangeSaved ==
    /\ lastEvent.type = "change"
    /\ <<lastEvent.form, lastEvent.field>> \in changeListener
    /\ storage = "ok"

\* C2 as stated  Snapshot completeness, one entry per named field: after a
\* change event on a tracked form the stored record has as many entries as
\* the form has named fields, each field's entry holding that field's value,
\* and no entry for anything else.
SnapshotPerField ==
    ChangeSaved =>
        LET f == lastEvent.form IN
        /\ HasRecord(f)
        /\ Len(Record(f)) = Cardinality(NamedInputs(f))
        /\ \A i \in NamedInputs(f) :
              /\ HasKey(Record(f), page[f].elems[i].name)
              /\ Get(Record(f), page[f].elems[i].name) = value[f][i]
        /\ \A j \in DOMAIN Record(f) : Record(f)[j].k \in NamesOf(f)

\* C2 amended  Snapshot completeness, one entry per name: after a change
\* event on a tracked form whose write succeeds, the stored record has exactly
\* one entry per distinct name among the form's named input, textarea and
\* select fields and no other entry, and the entry of a name holds the current
\* value of the last field of the form bearing it.
SnapshotPerName ==
    ChangeSaved =>
        LET f == lastEvent.form IN
        /\ HasRecord(f)
        /\ Len(Record(f)) = Cardinality(NamesOf(f))
        /\ \A j \in DOMAIN Record(f) : Record(f)[j].k \in NamesOf(f)
        /\ \A name \in NamesOf(f) :
              /\ HasKey(Record(f), name)
              /\ Get(Record(f), name) = value[f][LastNamed(f, name)]

\* C2 witness: a snapshot of a form with two fields of one name holding
\* different values and an unnamed field that is not empty, taken on a change
\* of the first of the fields.
SnapshotPerNameWitness ==
    /\ ChangeSaved
    /\ LET f == lastEvent.form IN
         /\ lastEvent.field # LastNamed(f, page[f].elems[lastEvent.field].name)
         /\ value[f][lastEvent.field] # ""
         /\ value[f][lastEvent.field]
               # value[f][LastNamed(f, page[f].elems[lastEvent.field].name)]
         /\ \E i \in Inputs(f) : page[f].elems[i].name = "" /\ value[f][i] # ""

\* C3  Submit clears: when the submit listener of a form was the last
\* listener to run for the form's key, the document loaded next finds no item
\* under the key and restores nothing into the forms of that key.
SubmitClears ==
    \A f \in Forms :
        (keyState[Key(page[f])] = "submitted" /\ lastEvent.type \in {"navigate", "load"}) =>
            /\ ~SavedData(f).present
            /\ \A i \in Elems(f) : background[f][i] = ""

\* C3 witness: a page load after a submit that followed a change, with an
\* empty field the record of the change would have filled.
SubmitClearsWitness ==
    /\ lastEvent.type = "load"
    /\ ~threw
    /\ \E f \in Forms :
          /\ formState[f] = "submitted"
          /\ keyState[Key(page[f])] = "submitted"
          /\ Tracked(f)
          /\ \E i \in NamedInputs(f) : value[f][i] = ""

\* C8 as stated  The draft state machine, per form: while the store works,
\* it holds an item under a form's key exactly when a change listener of that
\* form ran since the form's submit listener last ran (or, none having run,
\* when the store held one to begin with).
StateMachinePerForm ==
    storage = "ok" =>
        \A f \in Forms :
            SavedData(f).present <=> formState[f] \in {"preexisting", "changed"}

\* C8 amended  The draft state machine, per storage key: while the store
\* works, it holds an item under a key exactly when, among the listeners of
\* all the tracked forms of that key, a change listener ran last (or, none
\* having run, when the store held one to begin with); a submit on an empty
\* key leaves it empty.
StateMachinePerKey ==
    storage = "ok" =>
        \A k \in KeysOf(page) :
            store[k].present <=> keyState[k] \in {"preexisting", "changed"}

\* C8 witness: two forms of one key, the first submitted, the second changed
\* after it, and the draft of the second in the store.
StateMachinePerKeyWitness ==
    /\ storage = "ok"
    /\ \E f, g \in Forms :
          /\ f # g /\ Key(page[f]) = Key(page[g])
          /\ formState[f] = "submitted" /\ formState[g] = "changed"
          /\ HasRecord(g)

\* the step delivers an input, change or submit event to form f
EventOn(f) ==
    lastEvent'.type \in {"input", "change", "submit"} /\ lastEvent'.form = f

\* C10 as stated  Isolation by declared identifier: an event on one form
\* leaves the record and the values of a form with another declared
\* identifier alone, a restore changes nothing of a form that has no draft of
\* its own, and one form's event changes the record under another form's key
\* only when neither form declares an identifier.
IsolationByIdentifier ==
    [][\A f, g \in Forms : f # g =>
         /\ (EventOn(f) /\ page[f].id # "" /\ page[g].id # "" /\ page[f].id # page[g].id) =>
               /\ store'[Key(page[g])] = store[Key(page[g])]
               /\ value'[g] = value[g]
         /\ (EventOn(f) /\ store'[Key(page[g])] # store[Key(page[g])]) =>
               page[f].id = "" /\ page[g].id = ""
         /\ LoadStep =>
               /\ store' = store
               /\ ~Truthy(SavedData(g)) => value'[g] = value[g]]_vars

\* C10 amended  Isolation by key: an event on one form never changes the
\* values of another form, and leaves the record of every form whose
\* effective identifier (the declared one, 'admin-form' when none is
\* declared) differs from its own alone; a restore writes nothing to the
\* store and changes nothing of a form that has no draft of its own.
IsolationByKey ==
    [][\A f, g \in Forms : f # g =>
         /\ EventOn(f) => value'[g] = value[g]
         /\ (EventOn(f) /\ FormId(page[f]) # FormId(page[g])) =>
               store'[Key(page[g])] = store[Key(page[g])]
         /\ LoadStep =>
               /\ store' = store
               /\ ~Truthy(SavedData(g)) => value'[g] = value[g]]_vars

\* C10 witness: a handled submit on one form, with the draft and the values
\* of a form of another identifier still in place.
IsolationByKeyWitness ==
    /\ lastEvent.type = "submit"
    /\ Tracked(lastEvent.form)
    /\ storage = "ok"
    /\ \E g \in Forms :
          /\ FormId(page[g]) # FormId(page[lastEvent.form])
          /\ HasRecord(g)
          /\ \E i \in Elems(g) : value[g][i] # ""

\* C5  Decode failure is an absent draft: after initAutoSave met an item that
\* is no JSON, nothing of it was applied, no exception escaped, and every form
\* of the page has its listeners.
DecodeFailureIsAbsent ==
    (/\ lastEvent.type = "load"
     /\ storage = "ok"
     /\ \E f \in Forms : SavedData(f).present /\ ~JSONparse(SavedData(f).text).ok) =>
        /\ ~threw
        /\ \A f \in Forms : Tracked(f)
        /\ \A f \in Forms : ~HasRecord(f) => \A i \in Elems(f) : background[f][i] = ""

\* C6  Storage failure is silent: when the store is unavailable or over
\* quota, no handler lets an exception escape.
StorageFailureSilent ==
    storage # "ok" => ~threw

---------------------------------------------------------------------------
(* Properties of the page as wired *)

\* C4  Initialization runs once per page load: once the DOMContentLoaded
\* handler has run, every form of the page carries its change and submit
\* listeners.
ListenersAttachedOnLoad ==
    (/\ phase = "ready"
     /\ storage = "ok"
     /\ \A f \in Forms : ~SavedData(f).present) =>
        \A f \in Forms : Tracked(f)

\* C7  Save-reload-restore cycle of a form with a declared identifier whose
\* named fields are all empty: a change of one field to v stores a record
\* mapping the field to v and the other named fields to ""; the load of a
\* document whose fields are empty again sets the field to v and marks it;
\* a submit deletes the record.
SaveReloadRestoreCycle ==
    [][\A f \in Forms :
         (/\ page[f].id # ""
          /\ storage = "ok"
          /\ \A j \in NamedInputs(f) : value[f][j] = "") =>
            /\ (phase = "ready" /\ lastEvent'.type = "change" /\ lastEvent'.form = f
                /\ lastEvent'.field \in NamedInputs(f)) =>
                  /\ HasRecord(f)'
                  /\ \A j \in NamedInputs(f) :
                        /\ HasKey(Record(f)', page[f].elems[j].name)
                        /\ Get(Record(f)', page[f].elems[j].name) =
                              IF j = lastEvent'.field THEN value'[f][j] ELSE ""
            /\ (LoadStep /\ HasRecord(f)) =>
                  \A j \in NamedInputs(f) :
                     (/\ HasKey(Record(f), page[f].elems[j].name)
                      /\ Get(Record(f), page[f].elems[j].name) # "") =>
                        /\ value'[f][j] = Get(Record(f), page[f].elems[j].name)
                        /\ background'[f][j] = "#fef3c7"
            /\ (phase = "ready" /\ lastEvent'.type = "submit" /\ lastEvent'.form = f) =>
                  ~SavedData(f)'.present]_vars

---------------------------------------------------------------------------
(* Properties of the currency script *)

\* C9  Currency symbol auto-populate: a currency change event or the page
\* load changes the symbol field only when its trimmed value was empty, '$' or
\* the naira sign, and then to the symbol mapped to the selected currency; any
\* other symbol, and an empty or unmapped currency code, leave it as it was.
SymbolOverwrittenOnlyIfDefault ==
    (curEvent \in {"change", "load"} /\ currencySymbolField.present) =>
        LET old == prevSymbol
            new == currencySymbolField.value
            cur == currencyField.value
        IN /\ trim(old) \notin {<< >>, << "$" >>, << "U+20A6" >>} => new = old
           /\ (cur = "" \/ cur \notin DOMAIN CURRENCY_SYMBOLS) => new = old
           /\ new # old => cur \in DOMAIN CURRENCY_SYMBOLS /\ new = CURRENCY_SYMBOLS[cur]

\* C9 witness: a change event has replaced a naira-sign default, and a custom
\* symbol is what the first conjunct is about in the states next to it.
SymbolOverwrittenWitness ==
    /\ curEvent = "change"
    /\ currencyListener
    /\ trim(prevSymbol) = << "U+20A6" >>
    /\ prevSymbol # << "U+20A6" >>
    /\ currencySymbolField.value = << "U+00A3" >>
    /\ currencySymbolField.backgroundColor = "#d1fae5"

====
